---- MODULE Spec2Model ----
(***************************************************************************)
(* node-osrm: the binding between JavaScript callers and the OSRM engine   *)
(* (src/src/node_osrm.cpp).  The model covers Engine::New, the four        *)
(* request methods route / locate / table / nearest, Engine::Run, the      *)
(* worker-side Engine::AsyncRun and the loop-side Engine::AfterRun.        *)
(***************************************************************************)
EXTENDS Integers, Sequences, FiniteSets, TLC

(***************************************************************************)
(* Bounds of the model.                                                    *)
(***************************************************************************)
\* number of Jobs (RunQueryBaton) ever created in one behaviour
MaxJobs == 2
\* longest `coordinates` array the request specifications enumerate
MaxCoords == 2
\* longest `hints` array the request specifications enumerate
MaxHints == 1

(***************************************************************************)
(* JavaScript values.  Every value is a record [t, n, e]: t is the type    *)
(* tag, n the number (for "num", in units of 1/NumDen; for "bool" 0 or 1;  *)
(* for "str" the identity of the text; for "fn" the identity of the        *)
(* function), e the elements of an array.  The first argument of a call    *)
(* also carries p, its own properties ("absent" where it has none).        *)
(***************************************************************************)
\* OSRM's fixed-point scale, used by the four request methods
COORDINATE_PRECISION == 1000000
\* numbers are the rationals n / NumDen: fine enough for the scaling to truncate
NumDen == 2 * COORDINATE_PRECISION
\* two's-complement 32-bit INT_MIN
INT_MIN == -2147483647 - 1

Undef == [t |-> "undef", n |-> 0, e |-> <<>>]
Null == [t |-> "null", n |-> 0, e |-> <<>>]
Absent == [t |-> "absent", n |-> 0, e |-> <<>>]
Num(k) == [t |-> "num", n |-> k, e |-> <<>>]
Bool(b) == [t |-> "bool", n |-> IF b THEN 1 ELSE 0, e |-> <<>>]
Str(k) == [t |-> "str", n |-> k, e |-> <<>>]
Fn(k) == [t |-> "fn", n |-> k, e |-> <<>>]
Arr(s) == [t |-> "arr", n |-> 0, e |-> s]
PlainObj == [t |-> "obj", n |-> 0, e |-> <<>>]

PropNames ==
  {"coordinates", "alternateRoute", "checksum", "zoomLevel",
   "printInstructions", "jsonpParameter", "hints"}
NoProps == [k \in PropNames |-> Absent]
\* a value used as first argument: the value plus its own properties
WithProps(v, props) == [t |-> v.t, n |-> v.n, e |-> v.e, p |-> props]
Bare(v) == WithProps(v, NoProps)

\* v8::Value::IsString / IsNull / IsArray / IsFunction / IsObject
IsString(v) == v.t = "str"
IsNull(v) == v.t = "null"
IsUndefined(v) == v.t = "undef"
IsArray(v) == v.t = "arr"
IsFunction(v) == v.t = "fn"
IsObject(v) == v.t \in {"obj", "arr", "fn"}

\* v8::Value::ToObject: null and undefined have no object (an empty handle);
\* every other value converts (primitives to a wrapper without own properties)
ToObjectEmpty(v) == v.t \in {"null", "undef"}
\* v8::Object::Has / Get on the converted first argument
Has(a, name) == a.p[name].t # "absent"
Get(a, name) == IF a.p[name].t = "absent" THEN Undef ELSE a.p[name]

\* the text of a string value (String::Utf8Value): a sequence of characters
Utf8Value(v) == IF v.n = 0 THEN <<>> ELSE <<v.n>>

\* integer division rounding toward zero (static_cast<int> of a double)
TruncDiv(a, b) == IF a >= 0 THEN a \div b ELSE -((-a) \div b)

\* v8::Value::NumberValue (ToNumber): "nan" where the value is no number.
\* The strings of the model are non-numeric texts, so they convert to NaN.
NumberValue(v) ==
  CASE v.t = "num" -> [nan |-> FALSE, n |-> v.n]
    [] v.t = "null" -> [nan |-> FALSE, n |-> 0]
    [] v.t = "bool" -> [nan |-> FALSE, n |-> v.n * NumDen]
    [] OTHER -> [nan |-> TRUE, n |-> 0]

\* static_cast<int>(x->NumberValue() * COORDINATE_PRECISION): truncation toward
\* zero; the conversion of NaN is undefined, and builds produce INT_MIN (x86)
\* or 0 (ARM).  The result is the set of values a build can produce.
ToFixed(v) ==
  LET x == NumberValue(v)
  IN  IF x.nan THEN {INT_MIN, 0}
      ELSE {TruncDiv(x.n * COORDINATE_PRECISION, NumDen)}

\* v8::Value::BooleanValue (ToBoolean)
BooleanValue(v) ==
  CASE v.t \in {"undef", "null", "absent"} -> FALSE
    [] v.t \in {"num", "bool"} -> v.n # 0
    [] v.t = "str" -> v.n # 0
    [] OTHER -> TRUE

\* v8::Value::Int32Value (ToInt32) of a number: truncation toward zero, NaN
\* to 0.  Every number of the model is below 2^31 in magnitude (n / NumDen
\* with n a 32-bit integer), so the wrap modulo 2^32 leaves it unchanged.
Int32Value(v) ==
  LET x == NumberValue(v)
  IN  IF x.nan THEN 0 ELSE TruncDiv(x.n, NumDen)
\* v8::Value::Uint32Value (ToUint32): an unsigned 32-bit value is written as
\* the signed integer with the same 32 bits, which is what ToInt32 yields
Uint32Value(v) == Int32Value(v)
\* static_cast<short>
ToShort(i) == LET u == i % (2^16) IN IF u >= 2^15 THEN u - 2^16 ELSE u

(***************************************************************************)
(* RouteParameters, the typed request handed to the engine.  A text is a   *)
(* sequence of characters (small integers); a coordinate is a pair of      *)
(* fixed-point integers <<lat, lon>>.                                      *)
(***************************************************************************)
\* RouteParameters(): the values a freshly constructed request holds; the
\* std::string members start empty, check_sum holds the bits of -1
DefaultParams ==
  [service |-> "", coordinates |-> <<>>, hints |-> <<>>,
   zoom_level |-> 18, print_instructions |-> FALSE, alternate_route |-> TRUE,
   geometry |-> TRUE, compression |-> TRUE, check_sum |-> -1,
   output_format |-> "", jsonp_parameter |-> <<>>, language |-> ""]

\* the outcome of the synchronous part of a request method: an exception
\* thrown to the caller, a crash of the process, or a request to run
Throw(msg) == [thrown |-> msg, crashed |-> FALSE, params |-> DefaultParams]
Crash == [thrown |-> "", crashed |-> TRUE, params |-> DefaultParams]
Built(params) == [thrown |-> "", crashed |-> FALSE, params |-> params]

\* a coordinate pair is a 2-element array
IsPair(c) == IsArray(c) /\ Len(c.e) = 2

\* the coordinates loop: every fixed-point sequence the conversions can produce
RECURSIVE CoordSeqs(_)
CoordSeqs(s) ==
  IF s = <<>> THEN {<<>>}
  ELSE {<<<<a, b>>>> \o r :
          a \in ToFixed(Head(s).e[1]), b \in ToFixed(Head(s).e[2]),
          r \in CoordSeqs(Tail(s))}

\* the hints loop: a string pushes its text, null pushes the empty text
HintText(h) == IF IsString(h) THEN Utf8Value(h) ELSE <<>>
HintOk(h) == IsString(h) \/ IsNull(h)
HintSeq(s) == [i \in 1..Len(s) |-> HintText(s[i])]

\* the optional fields of route, each applied only if the property is present
RouteOptions(obj, p0) ==
  LET p1 == IF Has(obj, "alternateRoute")
            THEN [p0 EXCEPT !.alternate_route = BooleanValue(Get(obj, "alternateRoute"))]
            ELSE p0
      p2 == IF Has(obj, "checksum")
            THEN [p1 EXCEPT !.check_sum = Uint32Value(Get(obj, "checksum"))]
            ELSE p1
      p3 == IF Has(obj, "zoomLevel")
            THEN [p2 EXCEPT !.zoom_level = ToShort(Int32Value(Get(obj, "zoomLevel")))]
            ELSE p2
      p4 == IF Has(obj, "printInstructions")
            THEN [p3 EXCEPT !.print_instructions = BooleanValue(Get(obj, "printInstructions"))]
            ELSE p3
      p5 == IF Has(obj, "jsonpParameter")
            THEN [p4 EXCEPT !.jsonp_parameter = Utf8Value(Get(obj, "jsonpParameter"))]
            ELSE p4
  IN  p5

\* Engine::route up to its call of Run: the set of outcomes for `args`
routeBuild(args) ==
  IF Len(args) < 2 THEN {Throw("two arguments required")}
  ELSE IF ~IsObject(args[1]) THEN {Throw("two arguments required")}
  ELSE
  LET obj == args[1]
      p0 == [DefaultParams EXCEPT
               !.zoom_level = 18, !.print_instructions = FALSE,
               !.alternate_route = TRUE, !.geometry = TRUE,
               !.compression = TRUE, !.check_sum = 0,
               !.service = "viaroute", !.output_format = "json",
               !.jsonp_parameter = <<>>, !.language = ""]
      coordinates == Get(obj, "coordinates")
      hints == Get(obj, "hints")
  IN
  IF ~Has(obj, "coordinates") THEN {Throw("must provide a coordinates property")}
  ELSE IF ~IsArray(coordinates)
    THEN {Throw("coordinates must be an array of (lat/long) pairs")}
  ELSE IF Len(coordinates.e) < 2
    THEN {Throw("at least two coordinates must be provided")}
  ELSE IF \E i \in 1..Len(coordinates.e) : ~IsPair(coordinates.e[i])
    THEN {Throw("coordinates must be an array of (lat/long) pairs")}
  ELSE IF Has(obj, "hints") /\ ~IsArray(hints)
    THEN {Throw("hints must be an array of strings/null")}
  ELSE IF Has(obj, "hints") /\ \E i \in 1..Len(hints.e) : ~HintOk(hints.e[i])
    THEN {Throw("hint must be null or string")}
  ELSE
    {Built([RouteOptions(obj, p0) EXCEPT
              !.coordinates = cs,
              !.hints = IF Has(obj, "hints") THEN HintSeq(hints.e) ELSE <<>>]) :
       cs \in CoordSeqs(coordinates.e)}

\* Engine::locate and Engine::nearest up to their call of Run
pointBuild(service, args) ==
  IF Len(args) < 2 THEN {Throw("two arguments required")}
  ELSE IF ~IsArray(args[1])
    THEN {Throw("first argument must be an array of lat, long")}
  ELSE IF Len(args[1].e) # 2
    THEN {Throw("first argument must be an array of lat, long")}
  ELSE
    {Built([DefaultParams EXCEPT !.service = service, !.coordinates = cs]) :
       cs \in CoordSeqs(<<args[1]>>)}

locateBuild(args) == pointBuild("locate", args)

nearestBuild(args) == pointBuild("nearest", args)

\* mutation of tableBuild: the check of the number of coordinates is missing
tableBuild_NoCount(args) ==
  IF Len(args) < 2 THEN {Throw("two arguments required")}
  ELSE IF ToObjectEmpty(args[1]) THEN {Crash}
  ELSE
  LET coordinates == Get(args[1], "coordinates") IN
  IF ~IsArray(coordinates)
    THEN {Throw("coordinates must be an array of (lat/long) pairs")}
  ELSE IF \E i \in 1..Len(coordinates.e) : ~IsPair(coordinates.e[i])
    THEN {Throw("coordinates must be an array of (lat/long) pairs")}
  ELSE
    {Built([DefaultParams EXCEPT !.service = "table", !.coordinates = cs]) :
       cs \in CoordSeqs(coordinates.e)}

\* Engine::table up to its call of Run.  ToObject of null or undefined yields
\* an empty handle, and obj->IsNull() then reads through a null pointer.
tableBuild(args) ==
  IF Len(args) < 2 THEN {Throw("two arguments required")}
  ELSE IF ToObjectEmpty(args[1]) THEN {Crash}
  ELSE
  LET coordinates == Get(args[1], "coordinates") IN
  IF ~IsArray(coordinates)
    THEN {Throw("coordinates must be an array of (lat/long) pairs")}
  ELSE IF Len(coordinates.e) < 2
    THEN {Throw("at least two coordinates must be provided")}
  ELSE IF \E i \in 1..Len(coordinates.e) : ~IsPair(coordinates.e[i])
    THEN {Throw("coordinates must be an array of (lat/long) pairs")}
  ELSE
    {Built([DefaultParams EXCEPT !.service = "table", !.coordinates = cs]) :
       cs \in CoordSeqs(coordinates.e)}

(***************************************************************************)
(* The state of the addon.                                                 *)
(***************************************************************************)
VARIABLES
  engines,  \* the Engine objects constructed so far, by handle
  jobs,     \* the RunQueryBatons created so far, by Job id
  wq,       \* libuv work queue: Jobs queued by uv_queue_work, not yet started
  doneq,    \* libuv done queue: Jobs whose work ended, AfterRun pending
  inRun,    \* the Job Engine::Run has queued and not yet Ref'ed (0: none)
  last,     \* the latest call into the addon and its synchronous outcome
  exited    \* the process has terminated

vars == <<engines, jobs, wq, doneq, inRun, last, exited>>

NoCall ==
  [method |-> "none", eng |-> 0, construct |-> FALSE, args |-> <<>>,
   thrown |-> "", job |-> 0]

Init ==
  /\ engines = <<>>
  /\ jobs = <<>>
  /\ wq = <<>>
  /\ doneq = <<>>
  /\ inRun = 0
  /\ last = NoCall
  /\ exited = FALSE

\* the JavaScript thread is free to make a call or run a loop callback
MainIdle == ~exited /\ inRun = 0

(***************************************************************************)
(* Engine::New                                                             *)
(***************************************************************************)
\* the message of the std::exception the OSRM constructor throws
CtorWhat == "osrm: ex.what()"

\* the outcomes of Engine::New before the OSRM constructor runs: an exception,
\* or the (paths, use_shared_memory) pair handed to the constructor
NewBuild(construct, args) ==
  IF ~construct
    THEN [thrown |-> "Cannot call constructor as function, you need to use 'new' keyword",
          base |-> <<>>, hasBase |-> FALSE, shared |-> FALSE]
  ELSE IF Len(args) = 1 /\ ~IsString(args[1])
    THEN [thrown |-> "OSRM base path must be a string",
          base |-> <<>>, hasBase |-> FALSE, shared |-> FALSE]
  ELSE [thrown |-> "",
        base |-> IF Len(args) = 1 THEN Utf8Value(args[1]) ELSE <<>>,
        hasBase |-> Len(args) = 1,
        shared |-> Len(args) = 0]

\* Engine::New: `ctorOk` is whether the OSRM constructor returns (it may throw
\* a std::exception, which New rethrows as a TypeError).  The model constructs
\* one Engine: Engines share no state, each baton holds its own machine.
New(construct, args, ctorOk) ==
  /\ MainIdle
  /\ engines = <<>>
  /\ LET b == NewBuild(construct, args) IN
     IF b.thrown # "" THEN
       /\ last' = [NoCall EXCEPT !.method = "New", !.construct = construct,
                                 !.args = args, !.thrown = b.thrown]
       /\ UNCHANGED engines
     ELSE IF ~ctorOk THEN
       /\ last' = [NoCall EXCEPT !.method = "New", !.construct = construct,
                                 !.args = args, !.thrown = CtorWhat]
       /\ UNCHANGED engines
     ELSE
       /\ engines' = Append(engines,
            [refs |-> 0, alive |-> TRUE, base |-> b.base, hasBase |-> b.hasBase,
             shared |-> b.shared, argc |-> Len(args),
             arg0 |-> IF Len(args) >= 1 THEN args[1].t ELSE "none"])
       /\ last' = [NoCall EXCEPT !.method = "New", !.construct = construct,
                                 !.args = args, !.eng = Len(engines) + 1]
  /\ UNCHANGED <<jobs, wq, doneq, inRun, exited>>

\* node::ObjectWrap, the base class of Engine: Ref() makes the handle strong,
\* Unref() makes it weak again when the count returns to 0, and the weak
\* callback deletes the Engine (and the OSRM instance it owns).  The collector
\* runs on the JavaScript thread, for an object no script can reach any more.
Collect(e) ==
  /\ MainIdle
  /\ e \in 1..Len(engines)
  /\ engines[e].alive
  /\ engines[e].refs = 0
  /\ engines' = [engines EXCEPT ![e].alive = FALSE]
  /\ UNCHANGED <<jobs, wq, doneq, inRun, last, exited>>

(***************************************************************************)
(* Engine::Run and the four request methods                                *)
(***************************************************************************)
\* the accesses to a baton, as <<thread, operation>>, in the order made
LogInit == << <<"loop", "init">>, <<"loop", "queue">> >>
LogQuery == << <<"worker", "query">>, <<"worker", "write">> >>
LogCall == << <<"loop", "read">>, <<"loop", "call">> >>
LogRelease == << <<"loop", "unref">>, <<"loop", "dispose">>, <<"loop", "delete">> >>

\* new RunQueryBaton(), filled in by Run (result starts as the empty string)
NewBaton(eng, params, callback, method, args) ==
  [machine |-> eng, params |-> params, cb |-> callback.n,
   error |-> FALSE, result |-> <<>>, status |-> "Submitted",
   \* history, not program state:
   req |-> [method |-> method, args |-> args],
   query |-> "none", reply |-> <<>>, asked |-> DefaultParams,
   calls |-> <<>>, cbOutcome |-> "none", log |-> LogInit]

\* mutation of Run: the baton is created and queued before the callback is
\* checked
Run_LateCheck(method, eng, args, params) ==
  LET callback == args[Len(args)] IN
  /\ jobs' = Append(jobs, NewBaton(eng, params, callback, method, args))
  /\ wq' = Append(wq, Len(jobs) + 1)
  /\ inRun' = Len(jobs) + 1
  /\ last' = [NoCall EXCEPT !.method = method, !.eng = eng, !.args = args,
                !.job = IF IsFunction(callback) THEN Len(jobs) + 1 ELSE 0,
                !.thrown = IF IsFunction(callback) THEN ""
                           ELSE "last argument must be a callback function"]
  /\ UNCHANGED <<engines, doneq, exited>>

\* Engine::Run up to and including uv_queue_work
Run(method, eng, args, params) ==
  LET callback == args[Len(args)] IN
  IF ~IsFunction(callback) THEN
    /\ last' = [NoCall EXCEPT !.method = method, !.eng = eng, !.args = args,
                  !.thrown = "last argument must be a callback function"]
    /\ UNCHANGED <<engines, jobs, wq, doneq, inRun, exited>>
  ELSE
    /\ jobs' = Append(jobs, NewBaton(eng, params, callback, method, args))
    /\ wq' = Append(wq, Len(jobs) + 1)
    /\ inRun' = Len(jobs) + 1
    /\ last' = [NoCall EXCEPT !.method = method, !.eng = eng, !.args = args,
                  !.job = Len(jobs) + 1]
    /\ UNCHANGED <<engines, doneq, exited>>

\* mutation of RunRef: closure->error = false is written after uv_queue_work
RunRef_LateInit ==
  /\ ~exited
  /\ inRun # 0
  /\ engines' = [engines EXCEPT ![jobs[inRun].machine].refs = @ + 1]
  /\ jobs' = [jobs EXCEPT ![inRun].error = FALSE,
                          ![inRun].log = Append(@, <<"loop", "init">>)]
  /\ inRun' = 0
  /\ UNCHANGED <<wq, doneq, last, exited>>

\* mutation of RunRef: Run returns without closure->machine->Ref()
RunRef_NoRef ==
  /\ ~exited
  /\ inRun # 0
  /\ inRun' = 0
  /\ UNCHANGED <<engines, jobs, wq, doneq, last, exited>>

\* the rest of Engine::Run: closure->machine->Ref(), then return to the caller
RunRef ==
  /\ ~exited
  /\ inRun # 0
  /\ engines' = [engines EXCEPT ![jobs[inRun].machine].refs = @ + 1]
  /\ inRun' = 0
  /\ UNCHANGED <<jobs, wq, doneq, last, exited>>

\* mutation of Request: a validation failure throws without returning, so
\* the method goes on to Run with the parameters built so far
Request_NoReturn(method, eng, args, outcomes) ==
  /\ MainIdle
  /\ eng \in 1..Len(engines)
  /\ engines[eng].alive
  /\ Len(jobs) < MaxJobs
  /\ \E o \in outcomes :
       IF o.crashed THEN
         /\ exited' = TRUE
         /\ last' = [NoCall EXCEPT !.method = method, !.eng = eng, !.args = args]
         /\ UNCHANGED <<engines, jobs, wq, doneq, inRun>>
       ELSE IF Len(args) = 0 THEN
         /\ last' = [NoCall EXCEPT !.method = method, !.eng = eng, !.args = args,
                                   !.thrown = o.thrown]
         /\ UNCHANGED <<engines, jobs, wq, doneq, inRun, exited>>
       ELSE
         /\ jobs' = Append(jobs, NewBaton(eng, o.params, args[Len(args)], method, args))
         /\ wq' = Append(wq, Len(jobs) + 1)
         /\ inRun' = Len(jobs) + 1
         /\ last' = [NoCall EXCEPT !.method = method, !.eng = eng, !.args = args,
                                   !.thrown = o.thrown, !.job = Len(jobs) + 1]
         /\ UNCHANGED <<engines, doneq, exited>>

\* a request method called on Engine `eng`: one of the outcomes of its
\* synchronous part, then Run
Request(method, eng, args, outcomes) ==
  /\ MainIdle
  /\ eng \in 1..Len(engines)
  /\ engines[eng].alive
  /\ Len(jobs) < MaxJobs
  /\ \E o \in outcomes :
       IF o.crashed THEN
         /\ exited' = TRUE
         /\ last' = [NoCall EXCEPT !.method = method, !.eng = eng, !.args = args]
         /\ UNCHANGED <<engines, jobs, wq, doneq, inRun>>
       ELSE IF o.thrown # "" THEN
         /\ last' = [NoCall EXCEPT !.method = method, !.eng = eng, !.args = args,
                                   !.thrown = o.thrown]
         /\ UNCHANGED <<engines, jobs, wq, doneq, inRun, exited>>
       ELSE Run(method, eng, args, o.params)

route(eng, args) == Request("route", eng, args, routeBuild(args))

locate(eng, args) == Request("locate", eng, args, locateBuild(args))

table(eng, args) == Request("table", eng, args, tableBuild(args))

nearest(eng, args) == Request("nearest", eng, args, nearestBuild(args))

(***************************************************************************)
(* The worker side: libuv starts queued work in order; Engine::AsyncRun    *)
(* runs the query and captures its reply or its exception.                 *)
(***************************************************************************)
\* what OSRM::RunQuery can do with a request: fill the reply, or throw.  The
\* engine is deterministic: its reply is a text (JSON, so without NUL
\* character) that the request determines, here the service and the first
\* coordinate asked for.
ServiceCode(service) ==
  CASE service = "viaroute" -> 1
    [] service = "locate" -> 2
    [] service = "table" -> 3
    [] service = "nearest" -> 4
    [] OTHER -> 5
ReplyText(params) ==
  <<ServiceCode(params.service),
    IF params.coordinates[1][1] > 0 THEN 6 ELSE 7,
    IF params.coordinates[1][2] > 0 THEN 8 ELSE 9>>
QueryOutcomes(params) ==
  {[raised |-> FALSE, text |-> ReplyText(params)],
   [raised |-> TRUE, text |-> <<10, ServiceCode(params.service)>>]}

\* mutation of WorkerStart: the work item is posted as finished without
\* AsyncRun having run
WorkerStart_Skip ==
  /\ ~exited
  /\ wq # <<>>
  /\ jobs' = [jobs EXCEPT ![Head(wq)].status = "Completed"]
  /\ wq' = Tail(wq)
  /\ doneq' = Append(doneq, Head(wq))
  /\ UNCHANGED <<engines, inRun, last, exited>>

\* a libuv worker thread takes the first queued work item and enters AsyncRun
WorkerStart ==
  /\ ~exited
  /\ wq # <<>>
  /\ jobs' = [jobs EXCEPT ![Head(wq)].status = "Executing"]
  /\ wq' = Tail(wq)
  /\ UNCHANGED <<engines, doneq, inRun, last, exited>>

\* mutation of AsyncRun: no try/catch, so an exception of the query leaves
\* the thread function and std::terminate ends the process
AsyncRun_NoCatch(j, o) ==
  /\ ~exited
  /\ j \in 1..Len(jobs)
  /\ jobs[j].status = "Executing"
  /\ IF o.raised THEN
       /\ jobs' = [jobs EXCEPT ![j].query = "raised",
                               ![j].log = Append(@, <<"worker", "query">>)]
       /\ exited' = TRUE
       /\ UNCHANGED doneq
     ELSE
       /\ jobs' = [jobs EXCEPT
            ![j].result = o.text,
            ![j].status = "Completed",
            ![j].query = "returned",
            ![j].reply = o.text,
            ![j].asked = jobs[j].params,
            ![j].log = @ \o LogQuery]
       /\ doneq' = Append(doneq, j)
       /\ UNCHANGED exited
  /\ UNCHANGED <<engines, wq, inRun, last>>

\* mutation of AsyncRun: the worker invokes the callback itself, at the end
\* of AsyncRun, and also posts the finished work
AsyncRun_CallsBack(j, o) ==
  /\ ~exited
  /\ j \in 1..Len(jobs)
  /\ jobs[j].status = "Executing"
  /\ jobs' = [jobs EXCEPT
       ![j].result = o.text,
       ![j].error = IF o.raised THEN TRUE ELSE @,
       ![j].status = "Completed",
       ![j].query = IF o.raised THEN "raised" ELSE "returned",
       ![j].reply = o.text,
       ![j].asked = jobs[j].params,
       ![j].calls = Append(@, [fn |-> jobs[j].cb,
                               argv |-> IF o.raised
                                 THEN <<[t |-> "error", s |-> o.text]>>
                                 ELSE <<[t |-> "null", s |-> <<>>],
                                        [t |-> "string", s |-> o.text]>>]),
       ![j].log = @ \o LogQuery \o << <<"worker", "call">> >>]
  /\ doneq' = Append(doneq, j)
  /\ UNCHANGED <<engines, wq, inRun, last, exited>>

\* Engine::AsyncRun for Job j, the query ending with outcome o; libuv then
\* posts the finished work to the loop
AsyncRun(j, o) ==
  /\ ~exited
  /\ j \in 1..Len(jobs)
  /\ jobs[j].status = "Executing"
  \* closure->machine->this_ of a deleted Engine: the query may also crash
  /\ \E crash \in (IF engines[jobs[j].machine].alive THEN {FALSE} ELSE BOOLEAN) :
       IF crash THEN
         /\ exited' = TRUE
         /\ UNCHANGED <<jobs, doneq>>
       ELSE
         /\ jobs' = [jobs EXCEPT
              ![j].result = o.text,
              ![j].error = IF o.raised THEN TRUE ELSE @,
              ![j].status = "Completed",
              ![j].query = IF o.raised THEN "raised" ELSE "returned",
              ![j].reply = o.text,
              ![j].asked = jobs[j].params,
              ![j].log = @ \o LogQuery]
         /\ doneq' = Append(doneq, j)
         /\ UNCHANGED exited
  /\ UNCHANGED <<engines, wq, inRun, last>>

(***************************************************************************)
(* The loop side: Engine::AfterRun                                         *)
(***************************************************************************)
\* std::string::c_str() read as a C string: the text up to its first NUL
RECURSIVE CStr(_)
CStr(s) ==
  IF s = <<>> \/ Head(s) = 0 THEN <<>> ELSE <<Head(s)>> \o CStr(Tail(s))

\* the values handed to the callback
NanNull == [t |-> "null", s |-> <<>>]
NanError(s) == [t |-> "error", s |-> s]
NanString(s) == [t |-> "string", s |-> s]

\* mutation of CallbackArgv: the error branch also passes the result string
CallbackArgv_Both(job) ==
  IF job.error THEN <<NanError(CStr(job.result)), NanString(CStr(job.result))>>
  ELSE <<NanNull, NanString(CStr(job.result))>>

\* the argument vector AfterRun builds for the callback of a Job
CallbackArgv(job) ==
  IF job.error THEN <<NanError(CStr(job.result))>>
  ELSE <<NanNull, NanString(CStr(job.result))>>

\* what the caller's callback does: it returns, or it throws and
\* node::FatalException either hands the exception to an uncaughtException
\* listener and returns ("handled") or terminates the process ("exit")
CallbackOutcomes == {"returned", "handled", "exit"}

\* mutation of AfterRun: the `else` is missing, so a failed Job's callback is
\* invoked a second time with the success arguments
AfterRun_NoElse(j, cbo) ==
  /\ MainIdle
  /\ doneq # <<>>
  /\ j = Head(doneq)
  /\ LET first == [fn |-> jobs[j].cb, argv |-> <<NanError(CStr(jobs[j].result))>>]
         second == [fn |-> jobs[j].cb,
                    argv |-> <<NanNull, NanString(CStr(jobs[j].result))>>]
     IN  jobs' = [jobs EXCEPT
           ![j].calls = IF jobs[j].error THEN @ \o <<first, second>>
                        ELSE Append(@, second),
           ![j].cbOutcome = cbo,
           ![j].log = @ \o LogCall \o LogRelease,
           ![j].status = "Released"]
  /\ engines' = [engines EXCEPT ![jobs[j].machine].refs = @ - 1]
  /\ doneq' = Tail(doneq)
  /\ UNCHANGED <<wq, inRun, last, exited>>

\* mutation of AfterRun: the error branch returns right after the callback,
\* before Unref, NanDisposePersistent and delete
AfterRun_ErrorReturns(j, cbo) ==
  /\ MainIdle
  /\ doneq # <<>>
  /\ j = Head(doneq)
  /\ LET called == [jobs EXCEPT
           ![j].calls = Append(@, [fn |-> jobs[j].cb, argv |-> CallbackArgv(jobs[j])]),
           ![j].cbOutcome = cbo,
           ![j].log = @ \o LogCall]
     IN
     IF cbo = "exit" THEN
       /\ jobs' = called
       /\ exited' = TRUE
       /\ UNCHANGED <<engines, doneq>>
     ELSE IF jobs[j].error THEN
       /\ jobs' = called
       /\ doneq' = Tail(doneq)
       /\ UNCHANGED <<engines, exited>>
     ELSE
       /\ jobs' = [called EXCEPT ![j].status = "Released",
                                 ![j].log = @ \o LogRelease]
       /\ engines' = [engines EXCEPT ![jobs[j].machine].refs = @ - 1]
       /\ doneq' = Tail(doneq)
       /\ UNCHANGED exited
  /\ UNCHANGED <<wq, inRun, last>>

\* mutation of AfterRun: the baton is one shared object, so the completion
\* reads the callback and the result of the Job submitted last
AfterRun_SharedBaton(j, cbo) ==
  /\ MainIdle
  /\ doneq # <<>>
  /\ j = Head(doneq)
  /\ LET shared == jobs[Len(jobs)]
         called == [jobs EXCEPT
           ![j].calls = Append(@, [fn |-> shared.cb, argv |-> CallbackArgv(shared)]),
           ![j].cbOutcome = cbo,
           ![j].log = @ \o LogCall]
     IN
     IF cbo = "exit" THEN
       /\ jobs' = called
       /\ exited' = TRUE
       /\ UNCHANGED <<engines, doneq>>
     ELSE
       /\ jobs' = [called EXCEPT ![j].status = "Released",
                                 ![j].log = @ \o LogRelease]
       /\ engines' = [engines EXCEPT ![jobs[j].machine].refs = @ - 1]
       /\ doneq' = Tail(doneq)
       /\ UNCHANGED exited
  /\ UNCHANGED <<wq, inRun, last>>

\* mutation of AfterRun: the completion is made as soon as the work has
\* ended, also while Engine::Run has not yet returned
AfterRun_Inline(j, cbo) ==
  /\ ~exited
  /\ doneq # <<>>
  /\ j = Head(doneq)
  /\ LET called == [jobs EXCEPT
           ![j].calls = Append(@, [fn |-> jobs[j].cb, argv |-> CallbackArgv(jobs[j])]),
           ![j].cbOutcome = cbo,
           ![j].log = @ \o LogCall]
     IN
     IF cbo = "exit" THEN
       /\ jobs' = called
       /\ exited' = TRUE
       /\ UNCHANGED <<engines, doneq>>
     ELSE
       /\ jobs' = [called EXCEPT ![j].status = "Released",
                                 ![j].log = @ \o LogRelease]
       /\ engines' = [engines EXCEPT ![jobs[j].machine].refs = @ - 1]
       /\ doneq' = Tail(doneq)
       /\ UNCHANGED exited
  /\ UNCHANGED <<wq, inRun, last>>

\* mutation of AfterRun: the baton is deleted before the callback is invoked
AfterRun_DeleteFirst(j, cbo) ==
  /\ MainIdle
  /\ doneq # <<>>
  /\ j = Head(doneq)
  /\ LET called == [jobs EXCEPT
           ![j].calls = Append(@, [fn |-> jobs[j].cb, argv |-> CallbackArgv(jobs[j])]),
           ![j].cbOutcome = cbo,
           ![j].log = @ \o << <<"loop", "delete">> >> \o LogCall]
     IN
     IF cbo = "exit" THEN
       /\ jobs' = called
       /\ exited' = TRUE
       /\ UNCHANGED <<engines, doneq>>
     ELSE
       /\ jobs' = [called EXCEPT
            ![j].status = "Released",
            ![j].log = @ \o << <<"loop", "unref">>, <<"loop", "dispose">> >>]
       /\ engines' = [engines EXCEPT ![jobs[j].machine].refs = @ - 1]
       /\ doneq' = Tail(doneq)
       /\ UNCHANGED exited
  /\ UNCHANGED <<wq, inRun, last>>

\* mutation of AfterRun: Unref is made in the success branch only
AfterRun_ErrorKeepsRef(j, cbo) ==
  /\ MainIdle
  /\ doneq # <<>>
  /\ j = Head(doneq)
  /\ LET called == [jobs EXCEPT
           ![j].calls = Append(@, [fn |-> jobs[j].cb, argv |-> CallbackArgv(jobs[j])]),
           ![j].cbOutcome = cbo,
           ![j].log = @ \o LogCall]
     IN
     IF cbo = "exit" THEN
       /\ jobs' = called
       /\ exited' = TRUE
       /\ UNCHANGED <<engines, doneq>>
     ELSE
       /\ jobs' = [called EXCEPT ![j].status = "Released",
                                 ![j].log = @ \o LogRelease]
       /\ engines' = [engines EXCEPT
            ![jobs[j].machine].refs = IF jobs[j].error THEN @ ELSE @ - 1]
       /\ doneq' = Tail(doneq)
       /\ UNCHANGED exited
  /\ UNCHANGED <<wq, inRun, last>>

\* Engine::AfterRun for the first finished Job, on the loop thread
AfterRun(j, cbo) ==
  /\ MainIdle
  /\ doneq # <<>>
  /\ j = Head(doneq)
  /\ LET called == [jobs EXCEPT
           ![j].calls = Append(@, [fn |-> jobs[j].cb, argv |-> CallbackArgv(jobs[j])]),
           ![j].cbOutcome = cbo,
           ![j].log = @ \o LogCall]
     IN
     IF cbo = "exit" THEN
       /\ jobs' = called
       /\ exited' = TRUE
       /\ UNCHANGED <<engines, doneq>>
     ELSE
       /\ jobs' = [called EXCEPT ![j].status = "Released",
                                 ![j].log = @ \o LogRelease]
       /\ engines' = [engines EXCEPT ![jobs[j].machine].refs = @ - 1]
       /\ doneq' = Tail(doneq)
       /\ UNCHANGED exited
  /\ UNCHANGED <<wq, inRun, last>>

(***************************************************************************)
(* The calls the environment makes.                                        *)
(***************************************************************************)
\* an object with the given `coordinates` and `hints` properties
RouteObj(coordinates, hints) ==
  WithProps(PlainObj, [NoProps EXCEPT !["coordinates"] = coordinates,
                                      !["hints"] = hints])

\* 1.5e-6 and -1.5e-6: their scaled values 1.5 and -1.5 truncate to 1 and -1
PairA == Arr(<<Num(3), Num(-3)>>)
PairB == Arr(<<Num(-3), Num(3)>>)

\* the calls of the concurrent specification: an Engine constructed from a
\* base path (or refused one that is no string); for each method a valid
\* request, with different callbacks; a request that fails validation and a
\* request whose last argument is no function
SpecNewArgs == {<<Bare(Str(1))>>, <<Bare(Num(3))>>}
SpecRouteArgs ==
  {<<RouteObj(Arr(<<PairA, PairB>>), Absent), Fn(1)>>,
   <<RouteObj(Arr(<<PairB, PairA>>), Arr(<<Str(1), Null>>)), Fn(2)>>,
   <<RouteObj(Arr(<<PairA>>), Absent), Fn(1)>>}
SpecLocateArgs == {<<Bare(PairA), Fn(2)>>}
SpecTableArgs == {<<RouteObj(Arr(<<PairA, PairB>>), Absent), Fn(2)>>}
SpecNearestArgs == {<<Bare(PairB), Fn(1)>>, <<Bare(PairB), Null>>}

Handles == 1..Len(engines)
JobIds == 1..MaxJobs

(***************************************************************************)
(* Spec: an Engine and concurrent Jobs within the bounds.                   *)
(***************************************************************************)
Next ==
  \/ \E a \in SpecNewArgs, ok \in BOOLEAN : New(TRUE, a, ok)
  \/ \E e \in Handles, a \in SpecRouteArgs : route(e, a)
  \/ \E e \in Handles, a \in SpecLocateArgs : locate(e, a)
  \/ \E e \in Handles, a \in SpecTableArgs : table(e, a)
  \/ \E e \in Handles, a \in SpecNearestArgs : nearest(e, a)
  \/ RunRef
  \/ \E e \in Handles : Collect(e)
  \/ WorkerStart
  \/ \E j \in 1..Len(jobs) : \E o \in QueryOutcomes(jobs[j].params) : AsyncRun(j, o)
  \/ \E j \in 1..Len(jobs), c \in CallbackOutcomes : AfterRun(j, c)

Spec == Init /\ [][Next]_vars

(***************************************************************************)
(* SpecBuild: one request, drawn from every input shape within the bounds, *)
(* made on a constructed Engine, and then run to its end.                  *)
(***************************************************************************)
SeqsUpTo(S, n) == UNION {[1..k -> S] : k \in 0..n}

\* entries of a coordinate pair; candidates for an element of `coordinates`
BuildEntries == {Num(3), Str(1), Null}
BuildPairs ==
  {Arr(<<a, b>>) : a \in BuildEntries, b \in {Num(-3), Str(1)}}
    \cup {Arr(<<Num(3)>>), Num(3)}
BuildCoordinates ==
  {Arr(s) : s \in SeqsUpTo(BuildPairs, MaxCoords)} \cup {Absent, Undef, Str(1)}
BuildHints ==
  {Arr(s) : s \in SeqsUpTo({Str(1), Null, Num(3)}, MaxHints)} \cup {Absent, Str(1)}
\* no optional field, or all of them
BuildOptions ==
  {NoProps,
   [NoProps EXCEPT !["alternateRoute"] = Bool(FALSE),
                   !["checksum"] = Num(7 * NumDen),
                   !["zoomLevel"] = Num(-3 * NumDen - 1),
                   !["printInstructions"] = Str(1),
                   !["jsonpParameter"] = Str(2)]}
BuildObjects ==
  {WithProps(PlainObj, [o EXCEPT !["coordinates"] = c, !["hints"] = h]) :
     c \in BuildCoordinates, h \in BuildHints, o \in BuildOptions}
\* first arguments that are no plain object
BuildOthers ==
  {Bare(Undef), Bare(Null), Bare(Num(3)), Bare(Str(1)), Bare(Fn(2)),
   Bare(Arr(<<PairA, PairB>>))}
\* first arguments of locate and nearest
BuildPoints ==
  {Bare(Arr(s)) : s \in SeqsUpTo(BuildEntries \cup {Num(-3)}, MaxCoords)}
    \cup {Bare(Undef), Bare(Num(3)), Bare(PlainObj)}
\* what follows the first argument
BuildTails ==
  {<<>>, <<Fn(1)>>, <<Num(3)>>, <<Null>>, <<Fn(1), Num(3)>>, <<Num(3), Fn(1)>>}
BuildArgs(firsts) == {<<>>} \cup {<<f>> \o t : f \in firsts, t \in BuildTails}
BuildObjectArgs == BuildArgs(BuildObjects \cup BuildOthers)
BuildPointArgs == BuildArgs(BuildPoints)

\* no request has been made yet
FirstCall == last.method \in {"none", "New"}

NextBuild ==
  \/ New(TRUE, <<>>, TRUE)
  \/ FirstCall /\ \E e \in Handles, a \in BuildObjectArgs : route(e, a)
  \/ FirstCall /\ \E e \in Handles, a \in BuildPointArgs : locate(e, a)
  \/ FirstCall /\ \E e \in Handles, a \in BuildObjectArgs : table(e, a)
  \/ FirstCall /\ \E e \in Handles, a \in BuildPointArgs : nearest(e, a)
  \/ RunRef
  \/ \E e \in Handles : Collect(e)
  \/ WorkerStart
  \/ \E j \in 1..Len(jobs) : \E o \in QueryOutcomes(jobs[j].params) : AsyncRun(j, o)
  \/ \E j \in 1..Len(jobs), c \in CallbackOutcomes : AfterRun(j, c)

SpecBuild == Init /\ [][NextBuild]_vars

(***************************************************************************)
(* SpecNew: one construction, drawn from every argument shape.             *)
(***************************************************************************)
NewValues ==
  {Bare(Undef), Bare(Null), Bare(Num(3)), Bare(Str(1)), Bare(Str(2)),
   Bare(PlainObj), Bare(Arr(<<>>)), Bare(Fn(1))}
NewArgs == UNION {[1..k -> NewValues] : k \in 0..3}

NextNew ==
  \E c \in BOOLEAN, a \in NewArgs, ok \in BOOLEAN :
    last.method = "none" /\ New(c, a, ok)

SpecNew == Init /\ [][NextNew]_vars

(***************************************************************************)
(* FairSpec: Spec with the scheduling the claims about progress assume:    *)
(* Run returns, the worker pool starts queued work, a started query ends   *)
(* (it returns or raises), and the loop runs the pending AfterRun.         *)
(***************************************************************************)
FairSpec ==
  /\ Spec
  /\ WF_vars(RunRef)
  /\ WF_vars(WorkerStart)
  /\ \A j \in JobIds : WF_vars(j \in 1..Len(jobs) /\ \E o \in QueryOutcomes(jobs[j].params) : AsyncRun(j, o))
  /\ WF_vars(\E j \in 1..Len(jobs), c \in CallbackOutcomes : AfterRun(j, c))

(***************************************************************************)
(* Vocabulary of the properties.                                           *)
(***************************************************************************)
RequestMethods == {"route", "locate", "table", "nearest"}
Submitted(j) == j \in 1..Len(jobs)
Released(j) == Submitted(j) /\ jobs[j].status = "Released"
\* the in-flight counter of the Engine (0 before it is constructed)
InFlight == IF engines = <<>> THEN 0 ELSE engines[1].refs
\* nothing asynchronous exists: no Job, no queued work, no reference taken
NothingScheduled ==
  /\ jobs = <<>>
  /\ wq = <<>>
  /\ doneq = <<>>
  /\ inRun = 0
  /\ InFlight = 0
\* the latest call is a request that threw `msg` to its caller
Rejected == last.method \in RequestMethods /\ last.thrown # ""
\* the outcomes of the synchronous part of `method` for `args`
BuildOf(method, args) ==
  CASE method = "route" -> routeBuild(args)
    [] method = "locate" -> locateBuild(args)
    [] method = "table" -> tableBuild(args)
    [] method = "nearest" -> nearestBuild(args)
\* the request parameters of `args` are built successfully
Builds(method, args) ==
  \E o \in BuildOf(method, args) : ~o.crashed /\ o.thrown = ""

(***************************************************************************)
(* C1.  For every Job that reached uv_queue_work, the completion callback  *)
(* is invoked at most once, under every interleaving of submissions,       *)
(* worker executions and completions of concurrent Jobs.                   *)
(***************************************************************************)
C1_CallbackAtMostOnce ==
  \A j \in 1..Len(jobs) : Len(jobs[j].calls) <= 1

\* two Jobs in flight together, the later one completed first, a failed one
\* among the completed
C1_Witness ==
  /\ Len(jobs) >= 2
  /\ jobs[1].status = "Completed"
  /\ jobs[2].status = "Released"
  /\ jobs[2].error
  /\ Len(jobs[2].calls) = 1

C3_RejectedSchedulesNothing ==
  Rejected => NothingScheduled

\* a rejected request with a callable last argument and a hints error
C3_Witness ==
  /\ last.method = "route"
  /\ last.thrown = "hint must be null or string"
  /\ IsFunction(last.args[Len(last.args)])
  /\ NothingScheduled

(***************************************************************************)
(* C4.  For each of route, table, locate and nearest: a request whose      *)
(* parameters are built successfully but whose last argument is not        *)
(* callable fails synchronously with "last argument must be a callback     *)
(* function", and no request with such a last argument ever creates a Job, *)
(* queues work or increments the in-flight counter.                        *)
(***************************************************************************)
C4_CallbackContract ==
  (/\ last.method \in RequestMethods
   /\ Len(last.args) >= 2
   /\ ~IsFunction(last.args[Len(last.args)]))
  => /\ NothingScheduled
     /\ Builds(last.method, last.args)
          => last.thrown = "last argument must be a callback function"

\* table refused for its last argument after its parameters were built, a
\* function being the second of three arguments
C4_Witness ==
  /\ last.method = "table"
  /\ Len(last.args) = 3
  /\ IsFunction(last.args[2])
  /\ Builds(last.method, last.args)
  /\ last.thrown = "last argument must be a callback function"

(***************************************************************************)
(* C5.  The completion callback of a Job receives exactly one of two       *)
(* shapes, determined by the outcome of that Job's query: after a query    *)
(* that returned, (null, payload); after a query that raised, a single     *)
(* error argument carrying the engine's message.  Never both an error and  *)
(* a result, never neither.                                                *)
(***************************************************************************)
C5_CallbackShape ==
  \A j \in 1..Len(jobs) :
    \A i \in 1..Len(jobs[j].calls) :
      LET argv == jobs[j].calls[i].argv IN
      /\ jobs[j].query \in {"returned", "raised"}
      /\ jobs[j].query = "returned"
           => argv = <<NanNull, NanString(jobs[j].reply)>>
      /\ jobs[j].query = "raised"
           => argv = <<NanError(jobs[j].reply)>>

\* both shapes have been delivered
C5_Witness ==
  /\ Len(jobs) >= 2
  /\ jobs[1].query = "raised" /\ Len(jobs[1].calls) = 1
  /\ jobs[2].query = "returned" /\ Len(jobs[2].calls) = 1

(***************************************************************************)
(* C6.  Jobs submitted concurrently against one Engine complete            *)
(* independently: the query of a Job runs on the parameters built from its *)
(* own request, its completion invokes the callback of its own request     *)
(* with the outcome of its own query, whatever order the workers finish    *)
(* in; a released Job has had exactly one completion and a Job that is not *)
(* yet completed none, so N released Jobs have had exactly N completions.  *)
(***************************************************************************)
C6_OwnOutcome ==
  \A j \in 1..Len(jobs) :
    LET job == jobs[j] IN
    /\ job.query # "none" =>
         \E o \in BuildOf(job.req.method, job.req.args) :
           ~o.crashed /\ o.thrown = "" /\ job.asked = o.params
    /\ \A i \in 1..Len(job.calls) :
         /\ Fn(job.calls[i].fn) = job.req.args[Len(job.req.args)]
         /\ job.calls[i].argv[Len(job.calls[i].argv)].s = job.reply
         /\ (job.calls[i].argv[1].t = "error") = (job.query = "raised")
    /\ job.status = "Released" => Len(job.calls) = 1
    /\ job.status \in {"Submitted", "Executing"} => job.calls = <<>>

\* two Jobs with different requests and callbacks in flight together: the
\* later one is completed and released while the query of the earlier one is
\* still running
C6_Witness ==
  /\ Len(jobs) >= 2
  /\ jobs[1].status = "Executing"
  /\ jobs[2].status = "Released" /\ Len(jobs[2].calls) = 1
  /\ jobs[1].cb # jobs[2].cb
  /\ jobs[1].params # jobs[2].params

(***************************************************************************)
(* C7.  Every submitted Job satisfies the coordinate cardinality rule of   *)
(* its service: a route or table Job carries at least 2 coordinates, a     *)
(* locate or nearest Job exactly 1; an input that violates the rule (a     *)
(* coordinates array of fewer than 2 elements for route and table, a first *)
(* argument that is not a 2-element array for locate and nearest) is       *)
(* rejected synchronously and never dispatched.                            *)
(***************************************************************************)
ServiceOf(method) == IF method = "route" THEN "viaroute" ELSE method

ViolatesCardinality(method, args) ==
  /\ Len(args) >= 2
  /\ IF method \in {"route", "table"}
       THEN LET c == Get(args[1], "coordinates")
            IN  IsArray(c) /\ Len(c.e) < 2
       ELSE ~(IsArray(args[1]) /\ Len(args[1].e) = 2)

C7_Cardinality ==
  /\ \A j \in 1..Len(jobs) :
       LET p == jobs[j].params IN
       /\ p.service = ServiceOf(jobs[j].req.method)
       /\ p.service \in {"viaroute", "table"} => Len(p.coordinates) >= 2
       /\ p.service \in {"locate", "nearest"} => Len(p.coordinates) = 1
  /\ (last.method \in RequestMethods /\ ViolatesCardinality(last.method, last.args))
       => Rejected /\ NothingScheduled

\* table called with one well-formed coordinate and a callback
C7_Witness ==
  /\ last.method = "table"
  /\ Len(last.args) = 2
  /\ IsFunction(last.args[2])
  /\ LET c == Get(last.args[1], "coordinates")
     IN  IsArray(c) /\ Len(c.e) = 1 /\ IsPair(c.e[1])
  /\ last.thrown = "at least two coordinates must be provided"

(***************************************************************************)
(* C8.  For route and table alike, a `hints` array with an element that is *)
(* neither a string nor null makes the call fail synchronously with "hint  *)
(* must be null or string", no Job being dispatched, also when the         *)
(* coordinates and the callback are valid.  (Stated for the case the claim *)
(* singles out, coordinates and callback valid, where no other check can   *)
(* fail first.)                                                            *)
(***************************************************************************)
ValidCoordinates(c) ==
  /\ IsArray(c)
  /\ Len(c.e) >= 2
  /\ \A i \in 1..Len(c.e) : IsPair(c.e[i])

BadHints(h) ==
  IsArray(h) /\ \E i \in 1..Len(h.e) : ~(IsString(h.e[i]) \/ IsNull(h.e[i]))

C8_BadHintRejected ==
  (/\ last.method \in {"route", "table"}
   /\ Len(last.args) >= 2
   /\ last.args[1].t = "obj"
   /\ ValidCoordinates(Get(last.args[1], "coordinates"))
   /\ BadHints(Get(last.args[1], "hints"))
   /\ IsFunction(last.args[Len(last.args)]))
  => /\ last.thrown = "hint must be null or string"
     /\ NothingScheduled

(***************************************************************************)
(* C9.  For route and table, every deviation of the `coordinates` field    *)
(* from "array of at least two 2-element arrays of numbers" yields a       *)
(* synchronous validation error and no dispatch; in particular a pair with *)
(* a non-numeric entry is rejected rather than converted and submitted.    *)
(***************************************************************************)
NumericCoordinates(c) ==
  /\ ValidCoordinates(c)
  /\ \A i \in 1..Len(c.e) : c.e[i].e[1].t = "num" /\ c.e[i].e[2].t = "num"

C9_MalformedCoordinatesRejected ==
  (/\ last.method \in {"route", "table"}
   /\ Len(last.args) >= 2
   /\ last.args[1].t = "obj"
   /\ ~NumericCoordinates(Get(last.args[1], "coordinates")))
  => Rejected /\ NothingScheduled

(***************************************************************************)
(* C10.  Constructing an Engine succeeds only with no argument or with a   *)
(* single string argument; every other argument shape, two or more         *)
(* arguments included, is a synchronous validation error ("OSRM base path  *)
(* must be a string") and creates no Engine handle.                        *)
(***************************************************************************)
C10_OtherShapesRejected ==
  (/\ last.method = "New"
   /\ last.construct
   /\ ~(Len(last.args) = 0 \/ (Len(last.args) = 1 /\ IsString(last.args[1]))))
  => /\ last.thrown = "OSRM base path must be a string"
     /\ engines = <<>>

(***************************************************************************)
(* Vocabulary of the properties about the life of a baton.                 *)
(***************************************************************************)
\* how many times operation `op` was made on the baton of Job j
Times(j, op) ==
  Cardinality({i \in 1..Len(jobs[j].log) : jobs[j].log[i][2] = op})
\* every operation `op` on the baton of Job j comes after an operation `first`
After(j, op, first) ==
  \A i \in 1..Len(jobs[j].log) :
    jobs[j].log[i][2] = op => \E k \in 1..(i - 1) : jobs[j].log[k][2] = first
\* the Jobs submitted and not yet released
Unreleased ==
  {j \in 1..Len(jobs) : jobs[j].status \in {"Submitted", "Executing", "Completed"}}

(***************************************************************************)
(* C11.  If the completion callback raises, the resources of the Job are   *)
(* still released: the in-flight counter is decremented (Unref), the       *)
(* callback handle is disposed and the baton is freed, as after a callback *)
(* that returns.                                                           *)
(***************************************************************************)
C11_ThrowingCallbackReleases ==
  \A j \in 1..Len(jobs) :
    jobs[j].cbOutcome \in {"handled", "exit"} =>
      /\ Released(j)
      /\ Times(j, "unref") = 1
      /\ Times(j, "dispose") = 1
      /\ Times(j, "delete") = 1

C13_EngineOutlivesJobs ==
  /\ \A e \in 1..Len(engines) :
       ~engines[e].alive =>
         /\ engines[e].refs = 0
         /\ \A j \in Unreleased : jobs[j].machine # e
  /\ \A j \in 1..Len(jobs) :
       jobs[j].status = "Executing" => engines[jobs[j].machine].alive

\* the Engine has been collected, after Jobs that used it were released
C13_Witness ==
  /\ engines # <<>>
  /\ ~engines[1].alive
  /\ Len(jobs) = MaxJobs
  /\ \A j \in 1..Len(jobs) : Released(j) /\ jobs[j].machine = 1

(***************************************************************************)
(* C14.  Each Job goes through Validated, Submitted, Executing, Completed, *)
(* Released in that order: every step leaves the state of a Job unchanged  *)
(* or moves it to the next one; a Job is created Submitted, from validated *)
(* parameters; its callback is invoked only in the step from Completed;    *)
(* no other state is reachable; and while the process runs a Job that is   *)
(* not Released has its next step pending (queued, on a worker, or in the  *)
(* done queue), so that Released is the only terminal state.               *)
(***************************************************************************)
Order(status) ==
  CASE status = "Submitted" -> 1
    [] status = "Executing" -> 2
    [] status = "Completed" -> 3
    [] status = "Released" -> 4
    [] OTHER -> 0

C14_LifecycleOrder ==
  [][/\ Len(jobs') >= Len(jobs)
     /\ \A j \in 1..Len(jobs) :
          /\ \/ jobs'[j].status = jobs[j].status
             \/ Order(jobs'[j].status) = Order(jobs[j].status) + 1
          /\ jobs'[j].calls # jobs[j].calls =>
               jobs[j].status = "Completed" /\ jobs[j].query # "none"
     /\ \A j \in (Len(jobs) + 1)..Len(jobs') :
          /\ jobs'[j].status = "Submitted"
          /\ jobs'[j].calls = <<>>
          /\ \E o \in BuildOf(jobs'[j].req.method, jobs'[j].req.args) :
               ~o.crashed /\ o.thrown = "" /\ o.params = jobs'[j].params
     /\ \A j \in 1..Len(jobs') :
          /\ Order(jobs'[j].status) \in 1..4
          /\ ~exited' =>
               /\ jobs'[j].status = "Submitted" => \E i \in 1..Len(wq') : wq'[i] = j
               /\ jobs'[j].status = "Completed" => \E i \in 1..Len(doneq') : doneq'[i] = j
               /\ jobs'[j].status = "Released" => jobs'[j].calls # <<>>]_vars

\* a Job has gone through the whole sequence while another is on a worker
C14_Witness ==
  /\ \E j \in 1..Len(jobs) :
       /\ Released(j)
       /\ jobs[j].log = LogInit \o LogQuery \o LogCall \o LogRelease
  /\ \E j \in 1..Len(jobs) : jobs[j].status = "Executing"

(***************************************************************************)
(* C15.  The result slot of a Job is written once, by the worker thread    *)
(* that runs its query, which alone sets the error tag; the loop thread    *)
(* touches the baton before it queues the work (Run initialises the tag)   *)
(* and then not again until that write is done, when AfterRun reads the    *)
(* tag and the result: the two threads never access the slot together.     *)
(***************************************************************************)
C15_WorkerWritesOnce ==
  \A j \in 1..Len(jobs) :
    /\ \A i \in 1..Len(jobs[j].log) :
         /\ jobs[j].log[i][2] \in {"query", "write"} <=> jobs[j].log[i][1] = "worker"
         /\ jobs[j].log[i][2] = "init" => i = 1
    /\ Times(j, "write") = (IF jobs[j].status \in {"Completed", "Released"} THEN 1 ELSE 0)
    /\ Times(j, "init") = 1
    /\ After(j, "write", "queue")
    /\ After(j, "read", "write")
    /\ After(j, "call", "read")
    /\ jobs[j].status \in {"Submitted", "Executing"} => jobs[j].log = LogInit
    /\ jobs[j].error = (jobs[j].query = "raised")
    /\ jobs[j].result = jobs[j].reply

\* the worker has written the error tag and the message of a Job whose Run
\* has not yet returned, while the result of an earlier Job has been read
C15_Witness ==
  /\ Len(jobs) = 2
  /\ Released(1)
  /\ jobs[1].query = "returned"
  /\ inRun = 2
  /\ jobs[2].status = "Completed"
  /\ jobs[2].error

(***************************************************************************)
(* C16.  A baton and its callback handle are discarded at most once, only  *)
(* after the completion callback has been invoked, exactly once when the   *)
(* Job is Released, and nothing touches a baton after its delete: the      *)
(* delete is the last operation on it and no queue holds the Job any more. *)
(***************************************************************************)
C16_DiscardedOnce ==
  \A j \in 1..Len(jobs) :
    /\ Times(j, "dispose") = (IF Released(j) THEN 1 ELSE 0)
    /\ Times(j, "delete") = (IF Released(j) THEN 1 ELSE 0)
    /\ After(j, "dispose", "call")
    /\ After(j, "delete", "dispose")
    /\ Released(j) =>
         /\ jobs[j].log[Len(jobs[j].log)][2] = "delete"
         /\ Len(jobs[j].calls) = 1
         /\ inRun # j
         /\ \A i \in 1..Len(wq) : wq[i] # j
         /\ \A i \in 1..Len(doneq) : doneq[i] # j

\* the baton of the later Job has been discarded, after its callback raised
\* an exception that was handled; the baton of the earlier Job, finished
\* and not yet called back, has not
C16_Witness ==
  /\ Len(jobs) = 2
  /\ Released(2)
  /\ jobs[2].cbOutcome = "handled"
  /\ jobs[1].status = "Completed"
  /\ jobs[1].calls = <<>>

(***************************************************************************)
(* C17.  The engine query runs once per submitted Job.  The step in which  *)
(* it raises is taken by the worker: it records the failure in that Job    *)
(* only, queues nothing again and does not end the process; a Job whose    *)
(* query has ended is never queried again; and the failure is delivered    *)
(* as one completion of that Job, with the Error made of the engine's      *)
(* message, in a step that invokes no other Job's callback.                *)
(***************************************************************************)
C17_FailureCapturedOnce ==
  [][\A j \in 1..Len(jobs) :
       /\ (jobs[j].query = "none" /\ jobs'[j].query = "raised") =>
            /\ exited' = exited
            /\ wq' = wq
            /\ doneq' = Append(doneq, j)
            /\ jobs'[j].status = "Completed"
            /\ jobs'[j].error
            /\ \A k \in 1..Len(jobs) : k # j => jobs'[k] = jobs[k]
       /\ jobs[j].query # "none" =>
            /\ jobs'[j].query = jobs[j].query
            /\ jobs'[j].reply = jobs[j].reply
            /\ Cardinality({i \in 1..Len(jobs'[j].log) :
                              jobs'[j].log[i][2] = "query"}) = 1
       /\ (jobs[j].query = "raised" /\ jobs'[j].calls # jobs[j].calls) =>
            /\ jobs'[j].calls = <<[fn |-> jobs[j].cb,
                                   argv |-> <<NanError(jobs[j].reply)>>]>>
            /\ \A k \in 1..Len(jobs) : k # j => jobs'[k].calls = jobs[k].calls]_vars

\* the query of the first Job raised and the Job was completed with the
\* Error, while the second Job, in flight at the time, was completed with
\* its own reply
C17_Witness ==
  /\ Len(jobs) = 2
  /\ ~exited
  /\ Released(1) /\ jobs[1].query = "raised"
  /\ jobs[1].calls = <<[fn |-> jobs[1].cb, argv |-> <<NanError(jobs[1].reply)>>]>>
  /\ Released(2) /\ jobs[2].query = "returned"
  /\ jobs[2].calls = <<[fn |-> jobs[2].cb,
                        argv |-> <<NanNull, NanString(ReplyText(jobs[2].params))>>]>>

(***************************************************************************)
(* C18.  Completion callbacks are invoked on the loop thread only: a       *)
(* callback is invoked in a step of the loop thread, when it is not inside *)
(* Engine::Run, for the Job at the head of the loop's done queue, whose    *)
(* worker has finished; and a step invokes one callback, of one Job, so no *)
(* two callbacks run together however many Jobs have finished.             *)
(***************************************************************************)
C18_CallbackOnLoopThread ==
  [][\A j \in 1..Len(jobs) :
       jobs'[j].calls # jobs[j].calls =>
         /\ inRun = 0
         /\ doneq # <<>> /\ Head(doneq) = j
         /\ jobs[j].status = "Completed"
         /\ Len(jobs'[j].calls) = Len(jobs[j].calls) + 1
         /\ \A k \in 1..Len(jobs) : k # j => jobs'[k].calls = jobs[k].calls
         /\ \A i \in 1..Len(jobs'[j].log) :
              jobs'[j].log[i][2] = "call" => jobs'[j].log[i][1] = "loop"]_vars

\* two Jobs have finished on their workers; the callback of one has been
\* invoked and the other one waits in the done queue
C18_Witness ==
  /\ Len(jobs) = 2
  /\ Released(1) /\ jobs[1].cbOutcome = "returned"
  /\ jobs[2].status = "Completed" /\ jobs[2].error
  /\ doneq = <<2>>

(***************************************************************************)
(* C19.  Every request handed to the engine has output_format "json",      *)
(* whichever of route, table, locate and nearest made it.                  *)
(***************************************************************************)
C19_OutputFormatJson ==
  \A j \in 1..Len(jobs) :
    jobs[j].query # "none" => jobs[j].asked.output_format = "json"

(***************************************************************************)
(* C20.  The completion callback of a Job is never invoked inside the call *)
(* that submitted it: a Job is created with no callback made, and every    *)
(* callback is invoked in a step taken when no Engine::Run is in progress, *)
(* also when the worker has finished the query before Run returned.        *)
(***************************************************************************)
C20_NeverSynchronous ==
  [][/\ \A j \in (Len(jobs) + 1)..Len(jobs') :
          jobs'[j].calls = <<>> /\ inRun' = j
     /\ \A j \in 1..Len(jobs) :
          jobs'[j].calls # jobs[j].calls => inRun = 0]_vars

\* the worker has finished the query of the only Job while the call that
\* submitted it has not yet returned, and no callback has been made
C20_Witness ==
  /\ Len(jobs) = 1
  /\ inRun = 1
  /\ jobs[1].status = "Completed"
  /\ doneq = <<1>>
  /\ jobs[1].calls = <<>>

=============================================================================
